---- MODULE Spec2Model ----
(***************************************************************************)
(* Model of recordlinkage/algorithms/string.py: the eight pairwise string  *)
(* similarity functions over two pandas Series.  A Series is a sequence of *)
(* elements (default positional index); an element is a string (a sequence *)
(* of one-character strings) or the missing value NaN.  Scores are exact   *)
(* rationals num/den (numpy/Python float rounding is not modelled).        *)
(***************************************************************************)
EXTENDS Integers, Sequences, FiniteSets, Bags, TLC

VARIABLES
    pc,         \* "idle" | "apply" | "loop1" | "loop2" | "normalize" | "done"
    alg,        \* name of the function called
    s1, s2,     \* the two input Series
    opts,       \* keyword arguments of the call
    result,     \* outcome of the call: raised exception or returned scores
    row,        \* lcs: index of the row conc.apply is working on
    out,        \* lcs: scores of the rows already applied
    new_x_1,    \* lcs_apply: working pair of the first ordering
    lcs_acc_1,  \* lcs_apply: accumulated length of the first ordering
    new_x_2,    \* lcs_apply: working pair of the second ordering
    lcs_acc_2,  \* lcs_apply: accumulated length of the second ordering
    iters       \* history: accumulating iterations done by the running loop

vars == <<pc, alg, s1, s2, opts, result, row, out,
          new_x_1, lcs_acc_1, new_x_2, lcs_acc_2, iters>>

-----------------------------------------------------------------------------
(* Bounds of the input space *)

MaxLen == 3        \* longest generated string
MaxN == 2          \* longest generated multi-row Series
MaxMinLen == 2     \* largest min_len passed to the LCS similarity

Alphabet == {"a", "b"}

-----------------------------------------------------------------------------
(* Values *)

Min(a, b) == IF a <= b THEN a ELSE b

Max(a, b) == IF a >= b THEN a ELSE b

Abs(a) == IF a < 0 THEN -a ELSE a

\* np.nan as a Series element
NaN == [isnull |-> TRUE, val |-> <<>>]

\* a str as a Series element
Str(s) == [isnull |-> FALSE, val |-> s]

\* pandas.isnull(e)
isnull(e) == e.isnull

\* scores: np.nan, an exact rational, the rational num/sqrt(den), or a value
\* returned by a jellyfish primitive (finite, not computed here)
NaNScore == [kind |-> "nan", num |-> 0, den |-> 0]

Num(n, d) == [kind |-> "num", num |-> n, den |-> d]

RootNum(n, d2) == [kind |-> "rootnum", num |-> n, den |-> d2]

PrimScore == [kind |-> "prim", num |-> 0, den |-> 0]

\* outcome of applying a row function: a score or a raised exception
Ok(score) == [ok |-> TRUE, err |-> "none", score |-> score]

Raise(e) == [ok |-> FALSE, err |-> e, score |-> NaNScore]

\* outcome of a call
NoResult == [kind |-> "none", err |-> "none", scores |-> <<>>]

Raised(e) == [kind |-> "raise", err |-> e, scores |-> <<>>]

Returned(scores) == [kind |-> "return", err |-> "none", scores |-> scores]

NoOpts == [match |-> 0, mismatch |-> 0, gap_start |-> 0, gap_continue |-> 0,
           norm |-> "none", min_len |-> 0, include_wb |-> FALSE, ngram |-> <<0, 0>>]

NoPair == <<<<>>, <<>>>>

-----------------------------------------------------------------------------
(* Inputs *)

Strings == UNION {[1..k -> Alphabet] : k \in 0..MaxLen}

Elements == {NaN} \cup {Str(s) : s \in Strings}

\* one-row Series over all elements
SinglePairs == {<< <<e1>>, <<e2>> >> : e1, e2 \in Elements}

\* Series of 0..MaxN rows, equal or different in length
ShapeElems == {NaN, Str(<<"a", "b">>)}

ShapeSeries == UNION {[1..n -> ShapeElems] : n \in 0..MaxN}

ShapePairs == ShapeSeries \X ShapeSeries

\* the pairs of the documented examples
ScenarioPairs ==
    { << <<Str(<<"a", "b", "c">>)>>, <<Str(<<"a", "b", "d">>)>> >>,
      << <<Str(<<"A", "B", "C", "D", "E">>)>>, <<Str(<<"A", "B", "C", "X", "E">>)>> >> }

Inputs == SinglePairs \cup ShapePairs \cup ScenarioPairs

-----------------------------------------------------------------------------
(* pandas.concat([s1, s2], axis=1, ignore_index=True): rows are the union   *)
(* of the two indexes, a Series without the label contributes NaN          *)

At(s, i) == IF i <= Len(s) THEN s[i] ELSE NaN

concat(a, b) == [i \in 1..Max(Len(a), Len(b)) |-> <<At(a, i), At(b, i)>>]

\* DataFrame.apply(f, axis=1): the first exception ends the call
RECURSIVE FirstError(_, _)
FirstError(rs, i) ==
    IF i > Len(rs) THEN "none"
    ELSE IF ~rs[i].ok THEN rs[i].err
    ELSE FirstError(rs, i + 1)

Collect(rs) ==
    IF FirstError(rs, 1) # "none" THEN Raised(FirstError(rs, 1))
    ELSE Returned([i \in 1..Len(rs) |-> rs[i].score])

-----------------------------------------------------------------------------
(* Edit-distance metrics *)

EditAlgs == {"jaro", "jarowinkler", "levenshtein", "damerau_levenshtein"}

\* a jellyfish primitive: raises TypeError unless both arguments are str
jellyfish_call(x) ==
    IF isnull(x[1]) \/ isnull(x[2]) THEN Raise("TypeError") ELSE Ok(PrimScore)

\* the except clause shared by the four apply functions
except_isnull(x, r) ==
    IF r.ok THEN r
    ELSE IF isnull(x[1]) \/ isnull(x[2]) THEN Ok(NaNScore)
    ELSE r

jaro_apply(x) == except_isnull(x, jellyfish_call(x))

jaro_winkler_apply(x) == except_isnull(x, jellyfish_call(x))

\* 1 - distance / np.max([len, len]): numpy 0/0 is nan, no exception
levenshtein_try(x) ==
    IF ~jellyfish_call(x).ok THEN jellyfish_call(x)
    ELSE IF Max(Len(x[1].val), Len(x[2].val)) = 0 THEN Ok(NaNScore)
    ELSE Ok(PrimScore)

levenshtein_apply(x) == except_isnull(x, levenshtein_try(x))

damerau_levenshtein_apply(x) == except_isnull(x, levenshtein_try(x))

EditApply(a, x) ==
    CASE a = "jaro" -> jaro_apply(x)
      [] a = "jarowinkler" -> jaro_winkler_apply(x)
      [] a = "levenshtein" -> levenshtein_apply(x)
      [] a = "damerau_levenshtein" -> damerau_levenshtein_apply(x)

\* the four functions make no length check: concat aligns the two Series
edit_similarity(a, a1, a2) ==
    LET conc == concat(a1, a2)
    IN Collect([i \in 1..Len(conc) |-> EditApply(a, conc[i])])

-----------------------------------------------------------------------------
(* q-gram and cosine similarity (CountVectorizer over both Series) *)

\* the message of the length check shared by the functions that make it
SameLengthError == "ValueError: Arrays or Series have to be same length."

\* raised by CountVectorizer.fit_transform when no document has any n-gram
EmptyVocabularyError == "ValueError: empty vocabulary"

\* data = s1.append(s2).fillna('')
fillna(s) == [i \in 1..Len(s) |-> IF isnull(s[i]) THEN <<>> ELSE s[i].val]

\* CountVectorizer preprocessing: lowercase (strip_accents leaves ASCII alone)
Lower(c) ==
    CASE c = "A" -> "a" [] c = "B" -> "b" [] c = "C" -> "c"
      [] c = "D" -> "d" [] c = "E" -> "e" [] c = "X" -> "x"
      [] OTHER -> c

preprocess(text) == [i \in 1..Len(text) |-> Lower(text[i])]

\* Python w[off:off+n]
Slice(w, off, n) == SubSeq(w, off + 1, Min(off + n, Len(w)))

\* analyzer='char': sliding windows inside the string
char_ngrams(text, ngram) ==
    [w |-> text,
     pos |-> {p \in (ngram[1]..Min(ngram[2], Len(text))) \X (0..Len(text)) :
                 p[2] <= Len(text) - p[1]}]

\* analyzer='char_wb': the word padded with one space on each side; a word
\* not longer than n is counted once and ends the loop over n
char_wb_ngrams(text, ngram) ==
    LET w == <<" ">> \o text \o <<" ">>
    IN IF Len(text) = 0 THEN [w |-> <<>>, pos |-> {}]
       ELSE [w |-> w,
             pos |-> {p \in (ngram[1]..ngram[2]) \X (0..Len(w)) :
                         /\ p[2] <= Max(0, Len(w) - p[1])
                         /\ \A n2 \in ngram[1]..(p[1] - 1) : Len(w) > n2}]

analyze(text, include_wb, ngram) ==
    IF include_wb THEN char_wb_ngrams(preprocess(text), ngram)
    ELSE char_ngrams(preprocess(text), ngram)

GramsOf(doc) == {Slice(doc.w, p[2], p[1]) : p \in doc.pos}

CountOf(doc, g) == Cardinality({p \in doc.pos : Slice(doc.w, p[2], p[1]) = g})

\* vectorizer.fit_transform(data): shared vocabulary and one count vector per row
fit_transform(data, include_wb, ngram) ==
    LET docs == [i \in 1..Len(data) |-> analyze(data[i], include_wb, ngram)]
        vocabulary == UNION {GramsOf(docs[i]) : i \in 1..Len(data)}
    IN [vocabulary |-> vocabulary,
        rows |-> [i \in 1..Len(data) |-> [g \in vocabulary |-> CountOf(docs[i], g)]]]

\* sum(axis=1) of a row of the sparse matrix
RECURSIVE RowSum(_, _)
RowSum(f, S) ==
    IF S = {} THEN 0
    ELSE LET g == CHOOSE x \in S : TRUE
         IN f[g] + RowSum(f, S \ {g})

sum(f) == RowSum(f, DOMAIN f)

minimum(u, v) == [g \in DOMAIN u |-> Min(u[g], v[g])]

multiply(u, v) == [g \in DOMAIN u |-> u[g] * v[g]]

\* np.true_divide / np.divide on one row: 0/0 is nan (warning ignored)
true_divide(n, d) == IF d = 0 THEN NaNScore ELSE Num(n, d)

\* mutant: the smaller of the two totals as the divisor
_metric_sparse_euclidean_min_total(u, v) ==
    LET match_ngrams == sum(minimum(u, v))
        total_ngrams == Min(sum(u), sum(v))
    IN true_divide(match_ngrams, total_ngrams)

_metric_sparse_euclidean(u, v) ==
    LET match_ngrams == sum(minimum(u, v))
        total_ngrams == Max(sum(u), sum(v))
    IN true_divide(match_ngrams, total_ngrams)

\* ab / (sqrt(uu) * sqrt(vv)), kept as ab / sqrt(uu * vv)
_metric_sparse_cosine(u, v) ==
    LET a2 == sum(multiply(u, u))
        b2 == sum(multiply(v, v))
        ab == sum(multiply(v, u))
    IN IF a2 * b2 = 0 THEN NaNScore ELSE RootNum(ab, a2 * b2)

VecMetric(a, u, v) ==
    IF a = "qgram" THEN _metric_sparse_euclidean(u, v) ELSE _metric_sparse_cosine(u, v)

vector_similarity(a, a1, a2, include_wb, ngram) ==
    IF Len(a1) # Len(a2) THEN Raised(SameLengthError)
    ELSE IF Len(a1) = 0 THEN Returned(<<>>)
    ELSE LET vec_fit == fit_transform(fillna(a1 \o a2), include_wb, ngram)
             n == Len(a1)
         IN IF vec_fit.vocabulary = {} THEN Raised(EmptyVocabularyError)
            ELSE Returned([i \in 1..n |->
                     VecMetric(a, vec_fit.rows[i], vec_fit.rows[n + i])])

qgram_similarity(a1, a2, include_wb, ngram) ==
    vector_similarity("qgram", a1, a2, include_wb, ngram)

cosine_similarity(a1, a2, include_wb, ngram) ==
    vector_similarity("cosine", a1, a2, include_wb, ngram)

NgramRanges == {<<1, 1>>, <<2, 2>>, <<2, 3>>}

-----------------------------------------------------------------------------
(* Smith-Waterman similarity *)

Max3(a, b, c) == Max(a, Max(b, c))

AssertionError == "AssertionError: match must be greater than or equal to mismatch, gap_start, and gap_continue"

\* the loop body of compute_score for the cells k, k+1, ... in row-major order
RECURSIVE sw_fill(_, _, _, _, _, _, _)
sw_fill(str1, str2, o, k, m, trace, highest) ==
    IF k >= Len(str1) * Len(str2) THEN highest
    ELSE
        LET x == (k \div Len(str2)) + 1
            y == (k % Len(str2)) + 1
            diagonal == IF str1[x] = str2[y]
                        THEN m[x - 1][y - 1] + o.match
                        ELSE m[x - 1][y - 1] + o.mismatch
            gap_left == IF "L" \in trace[x - 1][y]
                        THEN m[x - 1][y] + o.gap_continue
                        ELSE m[x - 1][y] + o.gap_start
            gap_above == IF "A" \in trace[x][y - 1]
                         THEN m[x][y - 1] + o.gap_continue
                         ELSE m[x][y - 1] + o.gap_start
            best == Max3(diagonal, gap_left, gap_above)
            score == IF best <= 0 THEN 0 ELSE best
            tags == IF best <= 0 THEN {}
                    ELSE (IF score = diagonal THEN {"D"} ELSE {})
                         \cup (IF score = gap_above THEN {"A"} ELSE {})
                         \cup (IF score = gap_left THEN {"L"} ELSE {})
        IN sw_fill(str1, str2, o, k + 1,
                   [m EXCEPT ![x][y] = score],
                   [trace EXCEPT ![x][y] = tags],
                   IF score > highest THEN score ELSE highest)

compute_score(str1, str2, o) ==
    sw_fill(str1, str2, o, 0,
            [x \in 0..Len(str1) |-> [y \in 0..Len(str2) |-> 0]],
            [x \in 0..Len(str1) |-> [y \in 0..Len(str2) |-> {}]],
            0)

\* Python true division: a zero divisor raises
py_divide(n, d) == IF d = 0 THEN Raise("ZeroDivisionError") ELSE Ok(Num(n, d))

normalize(score, str1, str2, o) ==
    CASE o.norm = "min" -> py_divide(score, Min(Len(str1), Len(str2)) * o.match)
      [] o.norm = "max" -> py_divide(score, Max(Len(str1), Len(str2)) * o.match)
      [] o.norm = "mean" -> py_divide(2 * score, (Len(str1) + Len(str2)) * o.match)

\* the try block of sw_apply: len() of NaN raises TypeError, and
\* `len(str1) == 0 or len(str2) == 0` does not look at str2 when str1 is empty
sw_try(t, o) ==
    IF isnull(t[1]) THEN Raise("TypeError")
    ELSE IF Len(t[1].val) = 0 THEN Ok(Num(0, 1))
    ELSE IF isnull(t[2]) THEN Raise("TypeError")
    ELSE IF Len(t[2].val) = 0 THEN Ok(Num(0, 1))
    ELSE normalize(compute_score(t[1].val, t[2].val, o), t[1].val, t[2].val, o)

sw_apply(t, o) == except_isnull(t, sw_try(t, o))

\* mutant: the length check made before the assertion
smith_waterman_similarity_length_first(a1, a2, o) ==
    IF Len(a1) # Len(a2) THEN Raised(SameLengthError)
    ELSE IF ~(o.match >= Max3(o.mismatch, o.gap_start, o.gap_continue))
    THEN Raised(AssertionError)
    ELSE IF Len(a1) = 0 THEN Returned(<<>>)
    ELSE LET concat_ == concat(a1, a2)
         IN Collect([i \in 1..Len(concat_) |-> sw_apply(concat_[i], o)])

smith_waterman_similarity(a1, a2, o) ==
    IF ~(o.match >= Max3(o.mismatch, o.gap_start, o.gap_continue))
    THEN Raised(AssertionError)
    ELSE IF Len(a1) # Len(a2) THEN Raised(SameLengthError)
    ELSE IF Len(a1) = 0 THEN Returned(<<>>)
    ELSE LET concat_ == concat(a1, a2)
         IN Collect([i \in 1..Len(concat_) |-> sw_apply(concat_[i], o)])

ParamVals == {-1, 0, 2}

SWNorms == {"min", "max", "mean"}

-----------------------------------------------------------------------------
(* Longest common substring similarity *)

\* mutant: `>=` for `>`, so the last longest run wins instead of the first
RECURSIVE lcs_fill_last(_, _, _, _, _, _, _)
lcs_fill_last(str1, str2, k, m, longest, x_longest, y_longest) ==
    IF k >= Len(str1) * Len(str2)
    THEN [longest |-> longest, x_longest |-> x_longest, y_longest |-> y_longest]
    ELSE
        LET x == (k \div Len(str2)) + 1
            y == (k % Len(str2)) + 1
            cell == IF str1[x] = str2[y] THEN m[x - 1][y - 1] + 1 ELSE 0
            better == str1[x] = str2[y] /\ cell >= longest
        IN lcs_fill_last(str1, str2, k + 1,
                         [m EXCEPT ![x][y] = cell],
                         IF better THEN cell ELSE longest,
                         IF better THEN x ELSE x_longest,
                         IF better THEN y ELSE y_longest)

\* the two nested loops of lcs_iteration for the cells k, k+1, ... in
\* row-major order; m[x][y] is the length of the common run ending at (x, y)
RECURSIVE lcs_fill(_, _, _, _, _, _, _)
lcs_fill(str1, str2, k, m, longest, x_longest, y_longest) ==
    IF k >= Len(str1) * Len(str2)
    THEN [longest |-> longest, x_longest |-> x_longest, y_longest |-> y_longest]
    ELSE
        LET x == (k \div Len(str2)) + 1
            y == (k % Len(str2)) + 1
            cell == IF str1[x] = str2[y] THEN m[x - 1][y - 1] + 1 ELSE 0
            better == str1[x] = str2[y] /\ cell > longest
        IN lcs_fill(str1, str2, k + 1,
                    [m EXCEPT ![x][y] = cell],
                    IF better THEN cell ELSE longest,
                    IF better THEN x ELSE x_longest,
                    IF better THEN y ELSE y_longest)

\* mutant: the character after the match is dropped too
excise_one_more(s, i, n) == SubSeq(s, 1, i - n) \o SubSeq(s, i + 2, Len(s))

\* Python s[0:i-n] + s[i:]
excise(s, i, n) == SubSeq(s, 1, i - n) \o SubSeq(s, i + 1, Len(s))

\* mutant: the second string is returned whole
lcs_iteration_keep_str2(x, min_len) ==
    LET str1 == x[1]
        str2 == x[2]
    IN IF Min(Len(str1), Len(str2)) < min_len
       THEN [new_x |-> NoPair, is_none |-> TRUE, longest |-> 0]
       ELSE LET r == lcs_fill(str1, str2, 0,
                              [i \in 0..Len(str1) |-> [j \in 0..Len(str2) |-> 0]],
                              0, 0, 0)
            IN [new_x |-> <<excise(str1, r.x_longest, r.longest), str2>>,
                is_none |-> FALSE,
                longest |-> r.longest]

\* one pass over a working pair of strings (lcs_apply never passes NaN);
\* is_none marks the (None, None) returned for a pair shorter than min_len
lcs_iteration(x, min_len) ==
    LET str1 == x[1]
        str2 == x[2]
    IN IF Min(Len(str1), Len(str2)) < min_len
       THEN [new_x |-> NoPair, is_none |-> TRUE, longest |-> 0]
       ELSE LET r == lcs_fill(str1, str2, 0,
                              [i \in 0..Len(str1) |-> [j \in 0..Len(str2) |-> 0]],
                              0, 0, 0)
            IN [new_x |-> <<excise(str1, r.x_longest, r.longest),
                            excise(str2, r.y_longest, r.longest)>>,
                is_none |-> FALSE,
                longest |-> r.longest]

\* x is the row: the two original strings
normalize_lcs(lcs_value, x, norm) ==
    CASE norm = "overlap" -> py_divide(lcs_value, Min(Len(x[1]), Len(x[2])))
      [] norm = "jaccard" -> py_divide(lcs_value, Len(x[1]) + Len(x[2]) - Abs(lcs_value))
      [] norm = "dice" -> py_divide(lcs_value * 2, Len(x[1]) + Len(x[2]))
      [] OTHER -> py_divide(lcs_value * 2, Len(x[1]) + Len(x[2]))

\* (normalize_lcs(lcs_acc_1) + normalize_lcs(lcs_acc_2)) / 2
average(r1, r2) ==
    IF ~r1.ok THEN r1
    ELSE IF ~r2.ok THEN r2
    ELSE Ok(Num(r1.score.num * r2.score.den + r2.score.num * r1.score.den,
                2 * r1.score.den * r2.score.den))

LCSNorms == {"overlap", "jaccard", "dice", "unrecognized"}

-----------------------------------------------------------------------------
(* Specification *)

Init ==
    /\ pc = "idle"
    /\ alg = "none"
    /\ s1 = <<>>
    /\ s2 = <<>>
    /\ opts = NoOpts
    /\ result = NoResult
    /\ row = 0
    /\ out = <<>>
    /\ new_x_1 = NoPair
    /\ lcs_acc_1 = 0
    /\ new_x_2 = NoPair
    /\ lcs_acc_2 = 0
    /\ iters = 0

lcs_locals == <<row, out, new_x_1, lcs_acc_1, new_x_2, lcs_acc_2, iters>>

CallEdit ==
    /\ pc = "idle"
    /\ \E a \in EditAlgs, inp \in Inputs :
        /\ alg' = a
        /\ s1' = inp[1]
        /\ s2' = inp[2]
        /\ result' = edit_similarity(a, inp[1], inp[2])
    /\ opts' = NoOpts
    /\ pc' = "done"
    /\ UNCHANGED lcs_locals

CallQgram ==
    /\ pc = "idle"
    /\ \E inp \in Inputs, wb \in BOOLEAN, ng \in NgramRanges :
        /\ s1' = inp[1]
        /\ s2' = inp[2]
        /\ opts' = [NoOpts EXCEPT !.include_wb = wb, !.ngram = ng]
        /\ result' = qgram_similarity(inp[1], inp[2], wb, ng)
    /\ alg' = "qgram"
    /\ pc' = "done"
    /\ UNCHANGED lcs_locals

CallCosine ==
    /\ pc = "idle"
    /\ \E inp \in Inputs, wb \in BOOLEAN, ng \in NgramRanges :
        /\ s1' = inp[1]
        /\ s2' = inp[2]
        /\ opts' = [NoOpts EXCEPT !.include_wb = wb, !.ngram = ng]
        /\ result' = cosine_similarity(inp[1], inp[2], wb, ng)
    /\ alg' = "cosine"
    /\ pc' = "done"
    /\ UNCHANGED lcs_locals

CallSmithWaterman ==
    /\ pc = "idle"
    /\ \E inp \in Inputs, ma, mi, gs, gc \in ParamVals, nm \in SWNorms :
        LET o == [NoOpts EXCEPT !.match = ma, !.mismatch = mi, !.gap_start = gs,
                                !.gap_continue = gc, !.norm = nm]
        IN /\ s1' = inp[1]
           /\ s2' = inp[2]
           /\ opts' = o
           /\ result' = smith_waterman_similarity(inp[1], inp[2], o)
    /\ alg' = "smith_waterman"
    /\ pc' = "done"
    /\ UNCHANGED lcs_locals

\* longest_common_substring_similarity up to conc.apply
CallLCS ==
    /\ pc = "idle"
    /\ \E inp \in Inputs, nm \in LCSNorms, ml \in 1..MaxMinLen :
        /\ s1' = inp[1]
        /\ s2' = inp[2]
        /\ opts' = [NoOpts EXCEPT !.norm = nm, !.min_len = ml]
        /\ IF Len(inp[1]) # Len(inp[2])
           THEN result' = Raised(SameLengthError) /\ pc' = "done" /\ row' = 0
           ELSE IF Len(inp[1]) = 0
           THEN result' = Returned(<<>>) /\ pc' = "done" /\ row' = 0
           ELSE result' = NoResult /\ pc' = "apply" /\ row' = 1
    /\ alg' = "lcs"
    /\ UNCHANGED <<out, new_x_1, lcs_acc_1, new_x_2, lcs_acc_2, iters>>

\* the row lcs_apply is working on
CurrentRow == concat(s1, s2)[row]

CurrentStrings == <<CurrentRow[1].val, CurrentRow[2].val>>

\* lcs_apply returned `score` for the current row: conc.apply goes on
RowDone(score) ==
    /\ out' = Append(out, score)
    /\ IF row = Len(s1)
       THEN pc' = "done" /\ result' = Returned(out') /\ row' = row
       ELSE pc' = "apply" /\ result' = result /\ row' = row + 1

\* lcs_apply: the missing-value check and the start of the first ordering
LcsApply ==
    /\ pc = "apply"
    /\ IF isnull(CurrentRow[1]) \/ isnull(CurrentRow[2])
       THEN /\ RowDone(NaNScore)
            /\ UNCHANGED <<new_x_1, lcs_acc_1>>
       ELSE /\ lcs_acc_1' = 0
            /\ new_x_1' = CurrentStrings
            /\ pc' = "loop1"
            /\ UNCHANGED <<out, result, row>>
    /\ new_x_2' = NoPair
    /\ lcs_acc_2' = 0
    /\ iters' = 0
    /\ UNCHANGED <<alg, s1, s2, opts>>

\* one iteration of the first while loop; its break starts the second ordering
LcsLoop1 ==
    /\ pc = "loop1"
    /\ LET r == lcs_iteration(new_x_1, opts.min_len)
       IN IF r.longest < opts.min_len
          THEN /\ lcs_acc_2' = 0
               /\ new_x_2' = <<CurrentStrings[2], CurrentStrings[1]>>
               /\ iters' = 0
               /\ pc' = "loop2"
               /\ UNCHANGED <<new_x_1, lcs_acc_1>>
          ELSE /\ new_x_1' = r.new_x
               /\ lcs_acc_1' = lcs_acc_1 + r.longest
               /\ iters' = iters + 1
               /\ UNCHANGED <<pc, new_x_2, lcs_acc_2>>
    /\ UNCHANGED <<alg, s1, s2, opts, result, row, out>>

\* one iteration of the second while loop
LcsLoop2 ==
    /\ pc = "loop2"
    /\ LET r == lcs_iteration(new_x_2, opts.min_len)
       IN IF r.longest < opts.min_len
          THEN /\ pc' = "normalize"
               /\ UNCHANGED <<new_x_2, lcs_acc_2, iters>>
          ELSE /\ new_x_2' = r.new_x
               /\ lcs_acc_2' = lcs_acc_2 + r.longest
               /\ iters' = iters + 1
               /\ UNCHANGED pc
    /\ UNCHANGED <<alg, s1, s2, opts, result, row, out, new_x_1, lcs_acc_1>>

\* the return statement of lcs_apply: average of the two normalized totals
LcsNormalize ==
    /\ pc = "normalize"
    /\ LET r == average(normalize_lcs(lcs_acc_1, CurrentStrings, opts.norm),
                        normalize_lcs(lcs_acc_2, CurrentStrings, opts.norm))
       IN IF r.ok
          THEN RowDone(r.score)
          ELSE /\ result' = Raised(r.err)
               /\ pc' = "done"
               /\ UNCHANGED <<out, row>>
    /\ UNCHANGED <<alg, s1, s2, opts, new_x_1, lcs_acc_1, new_x_2, lcs_acc_2, iters>>

Next ==
    \/ CallEdit
    \/ CallQgram
    \/ CallCosine
    \/ CallSmithWaterman
    \/ CallLCS
    \/ LcsApply
    \/ LcsLoop1
    \/ LcsLoop2
    \/ LcsNormalize

NextVec == CallQgram \/ CallCosine

NextSW == CallSmithWaterman

NextLCS == CallLCS \/ LcsApply \/ LcsLoop1 \/ LcsLoop2 \/ LcsNormalize

Spec == Init /\ [][Next]_vars

SpecVec == Init /\ [][NextVec]_vars

SpecSW == Init /\ [][NextSW]_vars

SpecLCS == Init /\ [][NextLCS]_vars
-----------------------------------------------------------------------------
(* Vocabulary of the properties *)

\* the call has ended
Finished == pc = "done"

\* the string compared at row i of a Series after NaN is read as ''
TextAt(s, i) == IF isnull(At(s, i)) THEN <<>> ELSE At(s, i).val

MissingAt(i) == isnull(At(s1, i)) \/ isnull(At(s2, i))

PresentAt(i) == ~MissingAt(i)

MinLenAt(i) == Min(Len(TextAt(s1, i)), Len(TextAt(s2, i)))

\* the exact value of a score lies in [0, 1]
InUnitInterval(sc) ==
    \/ /\ sc.kind = "num"
       /\ \/ sc.den > 0 /\ 0 <= sc.num /\ sc.num <= sc.den
          \/ sc.den < 0 /\ sc.den <= sc.num /\ sc.num <= 0
    \/ /\ sc.kind = "rootnum"
       /\ sc.den > 0 /\ 0 <= sc.num /\ sc.num * sc.num <= sc.den

\* the score is the rational n/d
IsRational(sc, n, d) == sc.kind = "num" /\ sc.den # 0 /\ sc.num * d = sc.den * n

ValidSWConfig == opts.match >= Max3(opts.mismatch, opts.gap_start, opts.gap_continue)

-----------------------------------------------------------------------------
(* C1: length mismatch *)

\* C1 (as stated): every one of the eight functions, called (with valid
\* options) on two Series of different lengths, ends in the length-mismatch
\* error and returns no scores.
C1_LengthMismatchRaises ==
    (Finished /\ Len(s1) # Len(s2) /\ (alg = "smith_waterman" => ValidSWConfig))
        => result = Raised(SameLengthError)

-----------------------------------------------------------------------------
(* C2: missing values *)

\* C2 (as stated): for the edit-distance metrics, Smith-Waterman and LCS,
\* every returned score at a row where either element is NaN is NaN,
\* whatever the other element is and whichever side is missing.
C2_MissingPropagates ==
    (Finished /\ alg \in EditAlgs \cup {"smith_waterman", "lcs"} /\ result.kind = "return")
        => \A i \in 1..Len(result.scores) :
               MissingAt(i) => result.scores[i] = NaNScore

-----------------------------------------------------------------------------
(* C3: the q-gram formula *)

\* the n-grams of one string as a bag, without reference to any vocabulary
GramBag(text) ==
    LET doc == analyze(text, opts.include_wb, opts.ngram)
    IN [g \in GramsOf(doc) |-> CountOf(doc, g)]

\* sum over all grams of min(countA, countB): size of the bag intersection
SharedGrams(A, B) == BagCardinality(A (-) (A (-) B))

\* sum over all grams of max(countA, countB): size of the bag union
UnionGrams(A, B) == BagCardinality(A (+) (B (-) A))

IsAbcAbd ==
    /\ s1 = <<Str(<<"a", "b", "c">>)>>
    /\ s2 = <<Str(<<"a", "b", "d">>)>>
    /\ ~opts.include_wb
    /\ opts.ngram = <<2, 2>>

\* C3 (as stated): for every pair whose count vectors are not both zero,
\* qgramSimilarity = sum of min counts / sum of max counts (multiset
\* Jaccard); "abc" against "abd" with plain bigrams gives 1/3.
C3_QgramIsMultisetJaccard ==
    (Finished /\ alg = "qgram" /\ result.kind = "return")
        => /\ \A i \in 1..Len(result.scores) :
                  LET A == GramBag(TextAt(s1, i))
                      B == GramBag(TextAt(s2, i))
                  IN BagCardinality(A) + BagCardinality(B) > 0
                         => IsRational(result.scores[i], SharedGrams(A, B), UnionGrams(A, B))
           /\ IsAbcAbd => IsRational(result.scores[1], 1, 3)

\* C3 (amended): for every pair whose count vectors are not both zero,
\* qgramSimilarity = sum of min counts / max(total count of A, total count
\* of B); "abc" against "abd" with plain bigrams gives 1/2.
C3_QgramIsSharedOverLargerTotal ==
    (Finished /\ alg = "qgram" /\ Len(s1) = Len(s2))
        => \/ /\ result = Raised(EmptyVocabularyError)
              /\ \A i \in 1..Len(s1) :
                     BagCardinality(GramBag(TextAt(s1, i)))
                         + BagCardinality(GramBag(TextAt(s2, i))) = 0
           \/ /\ result.kind = "return"
              /\ Len(result.scores) = Len(s1)
              /\ \A i \in 1..Len(result.scores) :
                     LET A == GramBag(TextAt(s1, i))
                         B == GramBag(TextAt(s2, i))
                     IN BagCardinality(A) + BagCardinality(B) > 0
                            => IsRational(result.scores[i], SharedGrams(A, B),
                                          Max(BagCardinality(A), BagCardinality(B)))
              /\ IsAbcAbd => IsRational(result.scores[1], 1, 2)

\* C3 witness: the documented example has been scored, and it scored 1/2
C3_Witness ==
    /\ Finished /\ alg = "qgram" /\ IsAbcAbd
    /\ result = Returned(<<Num(1, 2)>>)
    /\ SharedGrams(GramBag(TextAt(s1, 1)), GramBag(TextAt(s2, 1))) = 1
    /\ UnionGrams(GramBag(TextAt(s1, 1)), GramBag(TextAt(s2, 1))) = 3

-----------------------------------------------------------------------------
(* C4: LCS on pairs shorter than min_len *)

\* C4 (as stated): for every norm and min_len >= 1, a present pair with
\* min(len(a), len(b)) < min_len (empty strings included) gets the score 0,
\* and the call raises nothing because of it.
C4_ShortPairScoresZero ==
    alg = "lcs"
        => /\ \A i \in 1..Len(out) :
                  (PresentAt(i) /\ MinLenAt(i) < opts.min_len) => IsRational(out[i], 0, 1)
           /\ (Finished /\ result.kind = "raise" /\ Len(s1) = Len(s2))
                  => ~(PresentAt(row) /\ MinLenAt(row) < opts.min_len)

-----------------------------------------------------------------------------
(* C5: range of the Smith-Waterman score *)

\* C5 (as stated): whenever match >= max(mismatch, gap_start, gap_continue),
\* for every norm and every pair of non-empty present strings the score
\* the call returns is a number s with 0 <= s <= 1.
C5_SWScoreInUnitInterval ==
    (Finished /\ alg = "smith_waterman" /\ ValidSWConfig /\ result.kind = "return")
        => \A i \in 1..Len(result.scores) :
               (PresentAt(i) /\ MinLenAt(i) > 0) => InUnitInterval(result.scores[i])

-----------------------------------------------------------------------------
(* C6: cosine similarity on empty strings *)

\* C6 (as stated): after NaN is replaced by '', the cosine score of a pair
\* is NaN when both count vectors are zero and a finite number in [0, 1]
\* for every other pair (one empty string included).  Stated of the calls
\* that return; the claim adds that no call raises.
C6_CosineFiniteUnlessBothEmpty ==
    (Finished /\ alg = "cosine" /\ result.kind = "return")
        => \A i \in 1..Len(result.scores) :
               LET A == GramBag(TextAt(s1, i))
                   B == GramBag(TextAt(s2, i))
               IN IF BagCardinality(A) + BagCardinality(B) = 0
                  THEN result.scores[i] = NaNScore
                  ELSE InUnitInterval(result.scores[i])

-----------------------------------------------------------------------------
(* C7: configuration error of Smith-Waterman *)

\* C7: whenever match < max(mismatch, gap_start, gap_continue) the call ends
\* in the configuration error, whatever the inputs are: Series of different
\* lengths, empty Series, or rows that would otherwise be scored.
C7_InvalidConfigRaisesFirst ==
    (Finished /\ alg = "smith_waterman" /\ ~ValidSWConfig)
        => result = Raised(AssertionError)

\* C7 witness: an invalid configuration (match < mismatch) met Series of
\* different lengths and the call ended in the configuration error
C7_Witness ==
    /\ Finished /\ alg = "smith_waterman"
    /\ opts.match < opts.mismatch
    /\ Len(s1) # Len(s2)
    /\ result = Raised(AssertionError)

-----------------------------------------------------------------------------
(* C8: one pass of the LCS primitive *)

\* s[i..i+n-1], the n elements starting at position i
Window(s, i, n) == SubSeq(s, i, i + n - 1)

\* a and b have a common contiguous substring of length n
HaveCommon(a, b, n) ==
    \E i \in 1..(Len(a) - n + 1), j \in 1..(Len(b) - n + 1) :
        Window(a, i, n) = Window(b, j, n)

\* length of the longest contiguous substring common to a and b
LongestCommon(a, b) ==
    CHOOSE n \in 0..Min(Len(a), Len(b)) :
        /\ HaveCommon(a, b, n)
        /\ \A k \in (n + 1)..Min(Len(a), Len(b)) : ~HaveCommon(a, b, k)

Occurs(w, s, i) == i >= 1 /\ i + Len(w) - 1 <= Len(s) /\ Window(s, i, Len(w)) = w

\* s without the leftmost occurrence of w
WithoutFirst(w, s) ==
    LET i == CHOOSE k \in 1..(Len(s) + 1) :
                 Occurs(w, s, k) /\ \A h \in 1..(k - 1) : ~Occurs(w, s, h)
    IN SubSeq(s, 1, i - 1) \o SubSeq(s, i + Len(w), Len(s))

\* what C8 says of one call of the primitive on the pair x
PrimitiveCorrect(x) ==
    LET r == lcs_iteration(x, opts.min_len)
        L == LongestCommon(x[1], x[2])
    IN Min(Len(x[1]), Len(x[2])) >= opts.min_len
           => /\ ~r.is_none
              /\ r.longest = L
              /\ Len(r.new_x[1]) = Len(x[1]) - L
              /\ Len(r.new_x[2]) = Len(x[2]) - L
              /\ \E i \in 1..(Len(x[1]) - L + 1) :
                     LET w == Window(x[1], i, L)
                     IN /\ Occurs(w, x[2], 1) \/ \E j \in 2..Len(x[2]) : Occurs(w, x[2], j)
                        /\ r.new_x = <<WithoutFirst(w, x[1]), WithoutFirst(w, x[2])>>

\* C8: for every working pair either loop hands to the primitive with
\* min(len(s1), len(s2)) >= min_len, the primitive returns the length L of
\* the longest common contiguous substring and the two strings with the
\* leftmost occurrence of one and the same common substring of length L
\* removed from each.
C8_PrimitiveLongestAndLeftmost ==
    /\ pc = "loop1" => PrimitiveCorrect(new_x_1)
    /\ pc = "loop2" => PrimitiveCorrect(new_x_2)

\* C8 witness: "aba" against "a": the first of the two occurrences of "a"
\* has been removed from "aba"
C8_Witness ==
    /\ pc = "loop1" /\ iters = 1 /\ opts.min_len = 1
    /\ CurrentStrings = << <<"a", "b", "a">>, <<"a">> >>
    /\ new_x_1 = << <<"b", "a">>, <<>> >>
    /\ lcs_acc_1 = LongestCommon(<<"a", "b", "a">>, <<"a">>)

-----------------------------------------------------------------------------
(* C9: range of the LCS score *)

LongEnoughAt(i) == PresentAt(i) /\ MinLenAt(i) >= opts.min_len

IsScenario4 ==
    /\ alg = "lcs"
    /\ s1 = <<Str(<<"A", "B", "C", "D", "E">>)>>
    /\ s2 = <<Str(<<"A", "B", "C", "X", "E">>)>>
    /\ opts.norm = "dice"
    /\ opts.min_len = 2

\* C9: for every norm and min_len >= 1 and every present pair with
\* min(len(a), len(b)) >= min_len, the total of each ordering never exceeds
\* min(len(a), len(b)), the row raises nothing and its score is in [0, 1];
\* "ABCDE" against "ABCXE" with dice and min_len = 2 accumulates 3 in both
\* orderings and scores 0.6.
C9_LcsTotalsAndScoreBounded ==
    alg = "lcs"
        => /\ (pc \in {"loop1", "loop2", "normalize"} /\ LongEnoughAt(row))
                  => /\ lcs_acc_1 <= MinLenAt(row)
                     /\ lcs_acc_2 <= MinLenAt(row)
           /\ \A i \in 1..Len(out) : LongEnoughAt(i) => InUnitInterval(out[i])
           /\ (Finished /\ result.kind = "raise" /\ Len(s1) = Len(s2)) => ~LongEnoughAt(row)
           /\ (IsScenario4 /\ pc = "normalize") => lcs_acc_1 = 3 /\ lcs_acc_2 = 3
           /\ (IsScenario4 /\ Finished)
                  => /\ result.kind = "return"
                     /\ IsRational(result.scores[1], 3, 5)

\* C9 witness: the documented example has been scored with totals 3 and 3
C9_Witness ==
    /\ IsScenario4 /\ Finished
    /\ lcs_acc_1 = 3 /\ lcs_acc_2 = 3
    /\ result.kind = "return"
    /\ IsRational(result.scores[1], 6, 10)

-----------------------------------------------------------------------------
(* C10: termination of the two extraction loops *)

\* total + len(working string) = len(original string), on both sides, and
\* the accumulating iterations done so far number at most min(len) / min_len
LoopInvariant ==
    /\ pc = "loop1"
           => /\ lcs_acc_1 + Len(new_x_1[1]) = Len(CurrentStrings[1])
              /\ lcs_acc_1 + Len(new_x_1[2]) = Len(CurrentStrings[2])
              /\ iters * opts.min_len <= MinLenAt(row)
    /\ pc = "loop2"
           => /\ lcs_acc_2 + Len(new_x_2[1]) = Len(CurrentStrings[2])
              /\ lcs_acc_2 + Len(new_x_2[2]) = Len(CurrentStrings[1])
              /\ iters * opts.min_len <= MinLenAt(row)

\* an iteration that stays in its loop shortens both working strings by the
\* returned length, which is at least min_len >= 1
IterationShortens ==
    /\ (pc = "loop1" /\ pc' = "loop1")
           => /\ lcs_acc_1' - lcs_acc_1 >= opts.min_len /\ opts.min_len >= 1
              /\ Len(new_x_1'[1]) = Len(new_x_1[1]) - (lcs_acc_1' - lcs_acc_1)
              /\ Len(new_x_1'[2]) = Len(new_x_1[2]) - (lcs_acc_1' - lcs_acc_1)
    /\ (pc = "loop2" /\ pc' = "loop2")
           => /\ lcs_acc_2' - lcs_acc_2 >= opts.min_len /\ opts.min_len >= 1
              /\ Len(new_x_2'[1]) = Len(new_x_2[1]) - (lcs_acc_2' - lcs_acc_2)
              /\ Len(new_x_2'[2]) = Len(new_x_2[2]) - (lcs_acc_2' - lcs_acc_2)

\* a step taken inside a loop either accumulates, and is counted, or leaves
\* the loop for good: the loop is never re-entered for the same ordering
LoopProgress ==
    /\ pc = "loop1" => \/ pc' = "loop1" /\ iters' = iters + 1
                       \/ pc' = "loop2"
    /\ pc = "loop2" => \/ pc' = "loop2" /\ iters' = iters + 1
                       \/ pc' = "normalize"

\* C10: for every present pair and min_len >= 1 each of the two loops ends:
\* every iteration that does not end it shortens both working strings by the
\* returned length (>= min_len >= 1) and is counted; total + len(working
\* string) = len(original string) throughout, and the count never exceeds
\* min(len(a), len(b)) / min_len, so after that many accumulating iterations
\* the next one leaves the loop.
C10_LcsLoopsTerminate ==
    /\ []LoopInvariant
    /\ [][IterationShortens /\ LoopProgress]_vars

\* C10 witness: a loop has made two accumulating iterations and has ended
C10_Witness ==
    /\ pc = "normalize"
    /\ iters = 2
    /\ lcs_acc_2 = Len(CurrentStrings[1])
    /\ new_x_2 = NoPair
====
